---- MODULE Spec2Model ----
(***************************************************************************)
(* The backtest engine of the repository (BacktestEngine, the part of      *)
(* src/lib/trading/engine.ts from line 685 on) together with the decision  *)
(* client it consults (DeepSeekClient, src/lib/ai/deepseek.ts).            *)
(*                                                                         *)
(* Numbers.  The code computes in IEEE doubles; the model computes in      *)
(* fixed point, every division rounding down:                              *)
(*   money      in thousandths of a dollar          (Usd)                  *)
(*   prices     in hundredths of a dollar           (Ticks)                *)
(*   quantities in thousandths of a coin            (QtyScale)             *)
(*   commission and slippage in ten-thousandths     (RateScale)            *)
(*   stopLoss / takeProfit percentages in tenths of a percent (Pct)        *)
(***************************************************************************)
EXTENDS Integers, Sequences, FiniteSets, TLC

VARIABLES
    klines,          \* the argument of run(): the bar series
    oracle,          \* the server behind the client: free, or a scripted stub
    pc,              \* position of run(): start, check, open, await, decided,
                     \* equity, done, failed
    i,               \* the loop index of run()
    currentCapital,  \* BacktestEngine.currentCapital
    currentPosition, \* BacktestEngine.currentPosition (NoPosition models null)
    trades,          \* BacktestEngine.trades
    equityCurve,     \* BacktestEngine.equityCurve
    maxEquity,       \* BacktestEngine.maxEquity
    aiInput,         \* the AIDecisionInput of the latest makeDecision call
    response,        \* what the HTTP call of the bar's makeDecision comes to
    decision,        \* the AIDecisionOutput makeDecision resolved with on this bar
    requestCount,    \* DeepSeekClient.requestCount
    posts,           \* the posts of makeDecision so far: the bar of each, and
                     \* whether the awaited call has settled
    opens,           \* the console log of tryOpenPosition: one line per opened position
    result,          \* the BacktestResult run() resolved with, as it read when
                     \* it was returned (NoResult before)
    rendered,        \* what BacktestReporter made of the report last
    order,           \* TradingEngine.executeOrder: its arguments and its outcome
    macdCall,        \* calculateMACD: its arguments and what it returned
    now,             \* Date.now(), in milliseconds
    binance,         \* rateLimitManager's BinanceRateLimiter
    ai,              \* rateLimitManager's AIRateLimiter of each provider
    answer,          \* the last call on rateLimitManager or a limiter, and
                     \* what it returned
    call,            \* one call of a function wrapped by withErrorHandling
    errors           \* ErrorLogger.errors

\* what a run of the backtest engine reads and writes
backtestVars == <<klines, oracle, pc, i, currentCapital, currentPosition, trades,
                  equityCurve, maxEquity, aiInput, response, decision, requestCount,
                  posts, opens, result>>

\* what it leaves alone
\* the rate limiters and their clock
limiterVars == <<now, binance, ai, answer>>

\* the wrapped call and the error log
handlerVars == <<call, errors>>

outside == <<rendered, order, macdCall, limiterVars, handlerVars>>

vars == <<backtestVars, outside>>

----------------------------------------------------------------------------
(* Bounds of the model *)

\* number of bars after the warm-up bars in the longest series
MaxBars == 2

\* calls of run() on one engine
MaxRuns == 2

\* closing prices handed to calculateMACD
MaxData == 5

\* rate-limit windows the clock runs through
MaxWindows == 1

\* the largest maxRetries a wrapper is given (3 is the default)
MaxRetriesTried == 3

----------------------------------------------------------------------------
(* Program constants *)

WarmUp == 200
InitialCapital == 100
MinConfidence == 70
CommissionRate == 4
SlippageRate == 5
DefaultPositionSize == 20
DefaultLeverage == 3
DefaultStopLoss == 2
DefaultTakeProfit == 4
MaxConfidence == 100
MinPositionSize == 1
MaxPositionSize == 100
MinLeverage == 1
MaxLeverage == 30
MinStopLossTenths == 5
MaxStopLoss == 10
MinTakeProfit == 1
MaxTakeProfit == 20
MinNotional == 20

\* TradingEngine.executeOrder and Validator.validateRiskParams
MinOrderNotional == 20
MinBalance == 20

\* BinanceRateLimiter and AIRateLimiter
BinanceMaxWeight == 1200
WindowMs == 60 * 1000
DeepseekMaxRequests == 100

\* withErrorHandling and ErrorLogger
DefaultRetryDelay == 1000
EngineRetryDelay == 2000
MaxErrors == 1000

\* BacktestReporter: trades in the best / worst lists, rows of the trade table
TopTrades == 5
RecentTrades == 20

----------------------------------------------------------------------------
(* Fixed-point units *)

Usd(x) == x * 1000
Ticks(x) == x * 100
Pct(x) == x * 10
QtyScale == 10 * 100
DrawdownScale == 100 * 100
RatioScale == 10 * 10
RateScale == 100 * 100
FracScale == 100 * 100
PctScale == 10 * 100

Min(a, b) == IF a < b THEN a ELSE b
Max(a, b) == IF a > b THEN a ELSE b

----------------------------------------------------------------------------
(* JavaScript values of the fields of the oracle's JSON answer *)

JsUndefined == [t |-> "undefined", n |-> 0, s |-> ""]
JsNaN == [t |-> "NaN", n |-> 0, s |-> ""]
JsNum(x) == [t |-> "number", n |-> x, s |-> ""]
JsStr(x) == [t |-> "string", n |-> 0, s |-> x]

\* ToBoolean: what `!v` and `v || d` test
Truthy(v) ==
    CASE v.t = "undefined" -> FALSE
      [] v.t = "NaN" -> FALSE
      [] v.t = "number" -> v.n # 0
      [] v.t = "string" -> v.s # ""

\* v || d
JsOr(v, d) == IF Truthy(v) THEN v ELSE d

\* ToNumber, applied by Math.min / Math.max / < to their operands
ToNumber(v) ==
    CASE v.t = "undefined" -> JsNaN
      [] v.t = "NaN" -> JsNaN
      [] v.t = "number" -> v
      [] v.t = "string" -> IF v.s = "" THEN JsNum(0)
                           ELSE IF v.s = "90" THEN JsNum(90)
                           ELSE JsNaN

\* Math.min(a, b) and Math.max(a, b): NaN if either operand is NaN
MathMin(a, b) ==
    LET x == ToNumber(a)
        y == ToNumber(b)
    IN IF x.t = "NaN" \/ y.t = "NaN" THEN JsNaN ELSE JsNum(Min(x.n, y.n))

MathMax(a, b) ==
    LET x == ToNumber(a)
        y == ToNumber(b)
    IN IF x.t = "NaN" \/ y.t = "NaN" THEN JsNaN ELSE JsNum(Max(x.n, y.n))

\* a < b on numbers: false if either operand is NaN
JsLess(a, b) ==
    LET x == ToNumber(a)
        y == ToNumber(b)
    IN IF x.t = "NaN" \/ y.t = "NaN" THEN FALSE ELSE x.n < y.n

\* Math.max(lo, Math.min(hi, v))
Clamp(lo, hi, v) == MathMax(JsNum(lo), MathMin(JsNum(hi), v))

----------------------------------------------------------------------------
(* DeepSeekClient: the decision oracle as the engine consumes it *)

\* the object JSON.parse returns for the oracle's answer
RawDecision(a, c, r, ps, lev, sl, tp) ==
    [action |-> a, confidence |-> c, reasoning |-> r, positionSize |-> ps,
     leverage |-> lev, stopLoss |-> sl, takeProfit |-> tp]

EmptyObject ==
    RawDecision(JsUndefined, JsUndefined, JsUndefined, JsUndefined,
                JsUndefined, JsUndefined, JsUndefined)

\* message content without any {...} in it
NoJson == [hasJson |-> FALSE, obj |-> EmptyObject]
Json(o) == [hasJson |-> TRUE, obj |-> o]

\* an AIDecisionOutput; threw = TRUE models makeDecision rejecting instead
Decision(a, c, r, ps, lev, sl, tp) ==
    [threw |-> FALSE, action |-> a, confidence |-> c, reasoning |-> r,
     positionSize |-> ps, leverage |-> lev, stopLoss |-> sl, takeProfit |-> tp]

Rejected ==
    [threw |-> TRUE, action |-> JsUndefined, confidence |-> JsUndefined,
     reasoning |-> JsUndefined, positionSize |-> JsUndefined,
     leverage |-> JsUndefined, stopLoss |-> JsUndefined, takeProfit |-> JsUndefined]

\* no decision made on the bar
NoDecision ==
    [threw |-> FALSE, action |-> JsUndefined, confidence |-> JsUndefined,
     reasoning |-> JsUndefined, positionSize |-> JsUndefined,
     leverage |-> JsUndefined, stopLoss |-> JsUndefined, takeProfit |-> JsUndefined]

\* the catch branch of parseDecision
ParseFailureDecision ==
    Decision(JsStr("HOLD"), JsNum(0), JsStr("parse failure"),
             JsNum(DefaultPositionSize), JsNum(DefaultLeverage),
             JsNum(Pct(DefaultStopLoss)), JsNum(Pct(DefaultTakeProfit)))

\* the catch branch of makeDecision
ApiErrorDecision ==
    Decision(JsStr("HOLD"), JsNum(0), JsStr("DeepSeek API error"),
             JsNum(DefaultPositionSize), JsNum(DefaultLeverage),
             JsNum(Pct(DefaultStopLoss)), JsNum(Pct(DefaultTakeProfit)))

\* `!decision.action || decision.confidence === undefined || !decision.reasoning`
MissingRequired(o) ==
    ~Truthy(o.action) \/ o.confidence.t = "undefined" \/ ~Truthy(o.reasoning)

ParseDecision(content) ==
    IF ~content.hasJson THEN ParseFailureDecision
    ELSE IF MissingRequired(content.obj) THEN ParseFailureDecision
    ELSE LET o == content.obj IN
         Decision(o.action,
                  Clamp(0, MaxConfidence, o.confidence),
                  o.reasoning,
                  Clamp(MinPositionSize, MaxPositionSize,
                        JsOr(o.positionSize, JsNum(DefaultPositionSize))),
                  Clamp(MinLeverage, MaxLeverage,
                        JsOr(o.leverage, JsNum(DefaultLeverage))),
                  Clamp(MinStopLossTenths, Pct(MaxStopLoss),
                        JsOr(o.stopLoss, JsNum(Pct(DefaultStopLoss)))),
                  Clamp(Pct(MinTakeProfit), Pct(MaxTakeProfit),
                        JsOr(o.takeProfit, JsNum(Pct(DefaultTakeProfit)))))

\* what the HTTP call comes to: a failure of the call, or a message content
ApiError(k) == [kind |-> k, content |-> NoJson]
ApiOk(c) == [kind |-> "ok", content |-> c]
NoResponse == [kind |-> "none", content |-> NoJson]

\* makeDecision without its try/catch: a failed call rejects
MakeDecisionNoCatch(outcome) ==
    IF outcome.kind = "ok" THEN ParseDecision(outcome.content) ELSE Rejected

MakeDecision(outcome) ==
    IF outcome.kind = "ok" THEN ParseDecision(outcome.content)
    ELSE ApiErrorDecision

\* the answers the oracle is let to give
Absent == JsUndefined
Reasoning == JsStr("because")

OkAnswers ==
    { NoJson,
      Json(RawDecision(JsStr("BUY"), JsNum(90), Reasoning, Absent, Absent, Absent, Absent)),
      Json(RawDecision(JsStr("SELL"), JsNum(150), Reasoning, JsNum(10), JsNum(1),
                       JsNum(Pct(3)), JsNum(Pct(6)))),
      Json(RawDecision(JsStr("HOLD"), JsNum(95), Reasoning, Absent, Absent, Absent, Absent)),
      Json(RawDecision(JsStr("CLOSE"), JsNum(95), Reasoning, Absent, Absent, Absent, Absent)),
      Json(RawDecision(JsStr("BUY"), JsNum(50), Reasoning, Absent, Absent, Absent, Absent)),
      Json(RawDecision(JsStr("BUY"), JsStr("high"), Reasoning, Absent, Absent, Absent, Absent)),
      Json(RawDecision(JsStr("BUY"), JsNum(90), Reasoning, JsStr("big"), JsStr("max"), Absent, Absent)),
      Json(RawDecision(JsStr("BUY"), Absent, Reasoning, Absent, Absent, Absent, Absent)),
      Json(RawDecision(Absent, JsNum(90), Reasoning, Absent, Absent, Absent, Absent)),
      Json(RawDecision(JsStr("SELL"), JsNum(90), JsStr(""), Absent, Absent, Absent, Absent)),
      Json(RawDecision(JsStr("BUY"), JsNum(80), Reasoning, JsNum(150), JsNum(0),
                       JsNum(0 - Pct(1)), JsNum(Pct(30)))),
      Json(RawDecision(JsStr("SELL"), JsNum(70), Reasoning, JsNum(0 - 5), JsNum(50), Absent, Absent)) }

\* the call fails (no response, a timeout of the 30 s limit, status 429), or
\* its body has no choices[0].message.content
FailureKinds == {"network", "timeout", "rateLimit", "badBody"}

\* requestCount++ comes after the post and before the body is read
CountsAsRequest(outcome) == outcome.kind = "ok" \/ outcome.kind = "badBody"

OracleOutcomes ==
    {ApiError(k) : k \in FailureKinds} \cup {ApiOk(c) : c \in OkAnswers}

\* the server never answers the post
Silent == [kind |-> "silent", content |-> NoJson]

\* what the server does with a post, before the client's time limit applies
ServerBehaviours == (OracleOutcomes \ {ApiError("timeout")}) \cup {Silent}

\* an axios instance created without a time limit: a silent post stays pending
NoAxiosTimeout(behaviour) == behaviour

\* `timeout: 30000` of the axios instance: a post still pending after 30 s is
\* rejected
AxiosTimeout(behaviour) ==
    IF behaviour.kind = "silent" THEN ApiError("timeout") ELSE behaviour

\* the oracle answering freely, and the stub that answers BUY on one bar and
\* HOLD on every other
FreeOracle == [scripted |-> FALSE, buyAt |-> 0]
Stub(bar) == [scripted |-> TRUE, buyAt |-> bar]

StubBuy ==
    Json(RawDecision(JsStr("BUY"), JsNum(90), Reasoning, JsNum(20), JsNum(3),
                     JsNum(Pct(2)), JsNum(Pct(4))))
StubHold ==
    Json(RawDecision(JsStr("HOLD"), JsNum(90), Reasoning, Absent, Absent, Absent, Absent))

\* what the post made on bar idx can come to
Answers(o, idx) ==
    IF o.scripted THEN {ApiOk(IF idx = o.buyAt THEN StubBuy ELSE StubHold)}
    ELSE ServerBehaviours


----------------------------------------------------------------------------
(* The bar series *)

Kline(t, o, h, l, c) ==
    [openTime |-> t, open |-> o, high |-> h, low |-> l, close |-> c, volume |-> 1]

\* the bars before the first processed one: flat at 100 dollars
WarmUpBar(t) == Kline(t, Ticks(100), Ticks(100), Ticks(100), Ticks(100))

\* the shapes a processed bar takes: quiet, falling, rising, and wide enough
\* to reach a stop-loss and a take-profit level at once
Shapes ==
    { [open |-> Ticks(100), high |-> Ticks(100) + 50, low |-> Ticks(100) - 50, close |-> Ticks(100)],
      [open |-> Ticks(100), high |-> Ticks(100) + 50, low |-> Ticks(95), close |-> Ticks(96)],
      [open |-> Ticks(100), high |-> Ticks(105), low |-> Ticks(100) - 50, close |-> Ticks(104)],
      [open |-> Ticks(100), high |-> Ticks(105), low |-> Ticks(95), close |-> Ticks(100)] }

\* the series of n bars: openTime strictly increasing (bar j opens at time j)
SeriesOfLen(n) ==
    IF n = 0 THEN {<<>>}
    ELSE IF n <= WarmUp THEN {[j \in 1..n |-> WarmUpBar(j - 1)]}
    ELSE {[j \in 1..n |-> IF j <= WarmUp THEN WarmUpBar(j - 1)
                          ELSE Kline(j - 1, f[j - WarmUp].open, f[j - WarmUp].high,
                                     f[j - WarmUp].low, f[j - WarmUp].close)] :
            f \in [1..(n - WarmUp) -> Shapes]}

Lengths == {0, 1, WarmUp - 1} \cup (WarmUp..(WarmUp + MaxBars))

AllSeries == UNION {SeriesOfLen(n) : n \in Lengths}

\* the series of the end-to-end scenario: 250 bars, every close above the one
\* before; bar j opens at the close before it and closes `step` higher
ScenarioBars == WarmUp + 50

RisingBar(j, step) ==
    Kline(j, Ticks(100) + step * j, Ticks(100) + step * (j + 1),
          Ticks(100) + step * j, Ticks(100) + step * (j + 1))

\* the bar with a low a tenth under its close
Dipping(k) == [k EXCEPT !.low = (k.close * 9) \div 10]

RisingSeries(step, dipAt) ==
    [j \in 1..ScenarioBars |-> IF j - 1 = dipAt THEN Dipping(RisingBar(j - 1, step))
                               ELSE RisingBar(j - 1, step)]

\* rising by 20 cents a bar, by 1 cent a bar, and by 20 cents with one dip
ScenarioSeries ==
    { RisingSeries(20, ScenarioBars), RisingSeries(1, ScenarioBars),
      RisingSeries(20, WarmUp + 5) }

\* klines[idx], the code's index starting at 0
At(ks, idx) == ks[idx + 1]

\* a window that reaches one bar past the current one: klines.slice(i - 198, i + 2)
HistoricalKlinesAhead(ks, idx) == SubSeq(ks, idx - WarmUp + 3, Min(idx + 2, Len(ks)))

\* klines.slice(i - 200, i)
HistoricalKlines(ks, idx) == SubSeq(ks, idx - WarmUp + 1, idx)

----------------------------------------------------------------------------
(* BacktestEngine *)

NoPosition ==
    [side |-> "NONE", entryPrice |-> 0, entryTime |-> 0, quantity |-> 0,
     leverage |-> 0, stopLoss |-> 0, takeProfit |-> 0]

\* the fields of the engine that run() reads and writes
Engine ==
    [currentCapital |-> currentCapital, currentPosition |-> currentPosition,
     trades |-> trades, equityCurve |-> equityCurve, maxEquity |-> maxEquity,
     opens |-> opens]

\* the close taken as it is, no slippage applied
Unmarked(price, rate) == price

\* price * (1 + rate) and price * (1 - rate)
Marked(price, rate) == (price * (RateScale + rate)) \div RateScale
Cut(price, rate) == (price * (RateScale - rate)) \div RateScale

\* the rate taken for a rate in percent: a hundred times too much
CommissionInPercent(notional) == (notional * CommissionRate) \div (RateScale \div 100)

\* notional * this.config.commission
Commission(notional) == (notional * CommissionRate) \div RateScale

\* the price move applied to the notional value without the leverage factor
UnleveragedMove(priceDiff, entryPrice, notionalValue, leverage) ==
    (((priceDiff * FracScale) \div entryPrice) * notionalValue) \div FracScale

\* (priceDiff / entryPrice) * notionalValue * leverage
LeveragedMove(priceDiff, entryPrice, notionalValue, leverage) ==
    ((((priceDiff * FracScale) \div entryPrice) * notionalValue) \div FracScale) * leverage

\* quantity * price
Notional(quantity, price) == (quantity * price) \div QtyScale

GetUnrealizedPnL(pos, currentPrice) ==
    IF pos = NoPosition THEN 0
    ELSE LET priceDiff == IF pos.side = "LONG" THEN currentPrice - pos.entryPrice
                          ELSE pos.entryPrice - currentPrice
         IN LeveragedMove(priceDiff, pos.entryPrice,
                          Notional(pos.quantity, pos.entryPrice), pos.leverage)

GetCurrentEquity(e, currentPrice) ==
    IF e.currentPosition = NoPosition THEN e.currentCapital
    ELSE e.currentCapital + GetUnrealizedPnL(e.currentPosition, currentPrice)

\* the stop-loss test after the take-profit test
CheckTakeProfitFirst(pos, kline) ==
    IF pos = NoPosition THEN "NONE"
    ELSE IF pos.side = "LONG"
         THEN IF kline.high >= pos.takeProfit THEN "TAKE_PROFIT"
              ELSE IF kline.low <= pos.stopLoss THEN "STOP_LOSS"
              ELSE "NONE"
         ELSE IF kline.low <= pos.takeProfit THEN "TAKE_PROFIT"
              ELSE IF kline.high >= pos.stopLoss THEN "STOP_LOSS"
              ELSE "NONE"

\* the take-profit test left out
CheckStopLossOnly(pos, kline) ==
    IF pos = NoPosition THEN "NONE"
    ELSE IF pos.side = "LONG"
         THEN IF kline.low <= pos.stopLoss THEN "STOP_LOSS" ELSE "NONE"
         ELSE IF kline.high >= pos.stopLoss THEN "STOP_LOSS" ELSE "NONE"

\* "NONE" models null
CheckStopLossTakeProfit(pos, kline) ==
    IF pos = NoPosition THEN "NONE"
    ELSE IF pos.side = "LONG"
         THEN IF kline.low <= pos.stopLoss THEN "STOP_LOSS"
              ELSE IF kline.high >= pos.takeProfit THEN "TAKE_PROFIT"
              ELSE "NONE"
         ELSE IF kline.high >= pos.stopLoss THEN "STOP_LOSS"
              ELSE IF kline.low <= pos.takeProfit THEN "TAKE_PROFIT"
              ELSE "NONE"

\* every exit taken at the bar's close, slippage applied
ExitPriceAtClose(pos, kline, reason) ==
    IF pos.side = "LONG" THEN Cut(kline.close, SlippageRate)
    ELSE Marked(kline.close, SlippageRate)

ExitPrice(pos, kline, reason) ==
    IF reason = "STOP_LOSS" THEN pos.stopLoss
    ELSE IF reason = "TAKE_PROFIT" THEN pos.takeProfit
    ELSE IF pos.side = "LONG" THEN Cut(kline.close, SlippageRate)
    ELSE Marked(kline.close, SlippageRate)

\* `this.currentCapital = netPnL`: the capital overwritten
SettleOverwriting(capital, netPnL) == netPnL

\* `this.currentCapital += netPnL`
Settle(capital, netPnL) == capital + netPnL

ClosePosition(e, kline, reason) ==
    IF e.currentPosition = NoPosition THEN e
    ELSE LET pos == e.currentPosition
             exitPrice == ExitPrice(pos, kline, reason)
             notionalValue == Notional(pos.quantity, pos.entryPrice)
             priceDiff == IF pos.side = "LONG" THEN exitPrice - pos.entryPrice
                          ELSE pos.entryPrice - exitPrice
             grossPnL == LeveragedMove(priceDiff, pos.entryPrice, notionalValue,
                                       pos.leverage)
             closeCommission == Commission(Notional(pos.quantity, exitPrice))
             netPnL == grossPnL - closeCommission
             trade == [entryTime |-> pos.entryTime, exitTime |-> kline.openTime,
                       side |-> pos.side, entryPrice |-> pos.entryPrice,
                       exitPrice |-> exitPrice, quantity |-> pos.quantity,
                       leverage |-> pos.leverage, pnl |-> netPnL,
                       pnlPercent |-> (netPnL * 100) \div (notionalValue \div pos.leverage),
                       commission |-> closeCommission, reason |-> reason]
         IN [e EXCEPT !.currentCapital = Settle(@, netPnL),
                      !.trades = Append(@, trade),
                      !.currentPosition = NoPosition]

\* the first part of the loop body: `if (this.currentPosition) { ... }`
ExitStep(e, ks, idx) ==
    LET exitReason == CheckStopLossTakeProfit(e.currentPosition, At(ks, idx))
    IN IF e.currentPosition # NoPosition /\ exitReason # "NONE"
       THEN ClosePosition(e, At(ks, idx), exitReason)
       ELSE e

\* run() consulting the oracle whatever the position is
AlwaysTryOpen(pos) == TRUE

\* `if (!this.currentPosition)` guarding tryOpenPosition in run()
ShouldTryOpen(pos) == pos = NoPosition


\* number of trades with pnl > 0 among the first n
RECURSIVE CountWins(_, _)
CountWins(ts, n) ==
    IF n = 0 THEN 0
    ELSE CountWins(ts, n - 1) + (IF ts[n].pnl > 0 THEN 1 ELSE 0)

RECURSIVE CountLosses(_, _)
CountLosses(ts, n) ==
    IF n = 0 THEN 0
    ELSE CountLosses(ts, n - 1) + (IF ts[n].pnl < 0 THEN 1 ELSE 0)

\* sharpeRatio is carried as the list of returns it is computed from
GetCurrentPerformance(e) ==
    IF Len(e.trades) = 0
    THEN [totalReturn |-> 0, returns |-> <<>>, winRate |-> 0, totalTrades |-> 0]
    ELSE [totalReturn |->
              ((e.currentCapital - Usd(InitialCapital)) * 100) \div Usd(InitialCapital),
          returns |-> [n \in 1..Len(e.trades) |-> e.trades[n].pnlPercent],
          winRate |-> (CountWins(e.trades, Len(e.trades)) * 100) \div Len(e.trades),
          totalTrades |-> Len(e.trades)]

NoInput ==
    [price |-> 0, indicators |-> <<>>,
     account |-> [balance |-> 0, positions |-> 0, totalValue |-> 0, unrealizedPnL |-> 0],
     performance |-> [totalReturn |-> 0, returns |-> <<>>, winRate |-> 0, totalTrades |-> 0],
     metadata |-> [timestamp |-> 0, wakeupCount |-> 0]]

\* tryOpenPosition up to the call of makeDecision; the indicators, functions of
\* the bars handed to calculateAllIndicators alone, are carried as those bars
BuildInput(e, ks, idx) ==
    LET historicalKlines == HistoricalKlines(ks, idx)
        currentKline == At(ks, idx)
    IN [price |-> currentKline.close,
        indicators |-> historicalKlines,
        account |-> [balance |-> e.currentCapital,
                     positions |-> IF e.currentPosition # NoPosition THEN 1 ELSE 0,
                     totalValue |-> GetCurrentEquity(e, currentKline.close),
                     unrealizedPnL |-> GetUnrealizedPnL(e.currentPosition, currentKline.close)],
        performance |-> GetCurrentPerformance(e),
        metadata |-> [timestamp |-> currentKline.openTime, wakeupCount |-> idx]]

\* `decision.action === 'BUY' || decision.action === 'SELL'`
IsEntry(d) == d.action = JsStr("BUY") \/ d.action = JsStr("SELL")

\* `decision.confidence < this.config.minConfidence`
BelowMinConfidence(d) == JsLess(d.confidence, JsNum(MinConfidence))

\* margin * leverage of the position a decision asks for
RequestedNotional(e, d) ==
    LET positionSize == JsOr(d.positionSize, JsNum(DefaultPositionSize)).n
        leverage == JsOr(d.leverage, JsNum(DefaultLeverage)).n
        margin == (e.currentCapital * positionSize) \div 100
    IN margin * leverage

\* tryOpenPosition from the answer of makeDecision on
OpenStep(e, currentKline, d) ==
    IF BelowMinConfidence(d) THEN e
    ELSE IF ~IsEntry(d) THEN e
    ELSE LET side == IF d.action = JsStr("BUY") THEN "LONG" ELSE "SHORT"
             leverage == JsOr(d.leverage, JsNum(DefaultLeverage)).n
             stopLoss == JsOr(d.stopLoss, JsNum(Pct(DefaultStopLoss))).n
             takeProfit == JsOr(d.takeProfit, JsNum(Pct(DefaultTakeProfit))).n
             notionalValue == RequestedNotional(e, d)
             entryPrice == IF side = "LONG" THEN Marked(currentKline.close, SlippageRate)
                           ELSE Cut(currentKline.close, SlippageRate)
             quantity == (notionalValue * QtyScale) \div entryPrice
             stopLossPrice ==
                 IF side = "LONG" THEN (entryPrice * (PctScale - stopLoss)) \div PctScale
                 ELSE (entryPrice * (PctScale + stopLoss)) \div PctScale
             takeProfitPrice ==
                 IF side = "LONG" THEN (entryPrice * (PctScale + takeProfit)) \div PctScale
                 ELSE (entryPrice * (PctScale - takeProfit)) \div PctScale
             openCommission == Commission(notionalValue)
         IN [e EXCEPT !.currentCapital = @ - openCommission,
                      !.currentPosition =
                          [side |-> side, entryPrice |-> entryPrice,
                           entryTime |-> currentKline.openTime, quantity |-> quantity,
                           leverage |-> leverage, stopLoss |-> stopLossPrice,
                           takeProfit |-> takeProfitPrice],
                      !.opens = Append(@, [time |-> currentKline.openTime, side |-> side,
                                           entryPrice |-> entryPrice, leverage |-> leverage,
                                           quantity |-> quantity,
                                           commission |-> openCommission])]

\* the equity point pushed only while a position is open
EquityStepWhileOpen(e, currentKline) ==
    LET currentEquity == GetCurrentEquity(e, currentKline.close)
    IN IF e.currentPosition = NoPosition THEN e
       ELSE [e EXCEPT !.equityCurve = Append(@, [time |-> currentKline.openTime,
                                                 equity |-> currentEquity])]

\* the exit check made at the end of the loop body, after the equity point
EquityStepThenExit(e, currentKline) ==
    LET currentEquity == GetCurrentEquity(e, currentKline.close)
        pushed == [e EXCEPT !.equityCurve = Append(@, [time |-> currentKline.openTime,
                                                       equity |-> currentEquity]),
                            !.maxEquity = IF currentEquity > @ THEN currentEquity ELSE @]
        exitReason == CheckStopLossTakeProfit(e.currentPosition, currentKline)
    IN IF e.currentPosition # NoPosition /\ exitReason # "NONE"
       THEN ClosePosition(pushed, currentKline, exitReason)
       ELSE pushed

\* the end of the loop body: the equity point and the running maximum
EquityStep(e, currentKline) ==
    LET currentEquity == GetCurrentEquity(e, currentKline.close)
    IN [e EXCEPT !.equityCurve = Append(@, [time |-> currentKline.openTime,
                                            equity |-> currentEquity]),
                 !.maxEquity = IF currentEquity > @ THEN currentEquity ELSE @]

\* run() going to the report with the position left as it is
NoForcedClose(e, ks) == e

\* after the loop: `if (this.currentPosition) closePosition(lastKline, 'BACKTEST_END')`
ForcedClose(e, ks) ==
    IF e.currentPosition # NoPosition
    THEN ClosePosition(e, At(ks, Len(ks) - 1), "BACKTEST_END")
    ELSE e

\* wins.reduce((sum, t) => sum + t.pnl, 0) over the first n trades
RECURSIVE TotalWin(_, _)
TotalWin(ts, n) ==
    IF n = 0 THEN 0
    ELSE TotalWin(ts, n - 1) + (IF ts[n].pnl > 0 THEN ts[n].pnl ELSE 0)

\* Math.abs(losses.reduce((sum, t) => sum + t.pnl, 0)) over the first n trades
RECURSIVE TotalLoss(_, _)
TotalLoss(ts, n) ==
    IF n = 0 THEN 0
    ELSE TotalLoss(ts, n - 1) + (IF ts[n].pnl < 0 THEN 0 - ts[n].pnl ELSE 0)

\* totalWin / totalLoss whatever totalLoss is: Infinity or NaN over zero
ProfitFactorUnguarded(totalWin, totalLoss) ==
    IF totalLoss > 0 THEN JsNum((totalWin * RatioScale) \div totalLoss)
    ELSE IF totalWin > 0 THEN [t |-> "Infinity", n |-> 0, s |-> ""]
    ELSE JsNaN

\* `totalLoss > 0 ? totalWin / totalLoss : 0`, in hundredths
ProfitFactor(totalWin, totalLoss) ==
    IF totalLoss > 0 THEN JsNum((totalWin * RatioScale) \div totalLoss)
    ELSE JsNum(0)

\* the largest member of a set of numbers
SetMax(S) == CHOOSE x \in S : \A y \in S : y <= x

\* `peak` after the first n points of the forEach over the equity curve: the
\* running maximum, starting from the initial capital
PeakAt(curve, n) ==
    SetMax({Usd(InitialCapital)} \cup {curve[k].equity : k \in 1..n})

\* the forEach over the equity curve: the peak it ends with, the largest
\* drawdown, and the drawdown curve in hundredths of a percent
DrawdownLoop(curve) ==
    [peak |-> PeakAt(curve, Len(curve)),
     maxDrawdown |->
         SetMax({0} \cup {PeakAt(curve, n) - curve[n].equity : n \in 1..Len(curve)}),
     drawdownCurve |->
         [n \in 1..Len(curve) |->
             [time |-> curve[n].time,
              drawdown |-> ((PeakAt(curve, n) - curve[n].equity) * DrawdownScale)
                               \div PeakAt(curve, n)]]]

\* BacktestReporter has produced nothing yet
NothingRendered ==
    [kind |-> "none", best |-> <<>>, worst |-> <<>>, rows |-> <<>>, curve |-> <<>>]

\* executeOrder has not been called
NoOrder ==
    [status |-> "none", symbol |-> "", action |-> "", balance |-> 0, price |-> 0,
     positionSize |-> 0, leverage |-> 0, quantity |-> 0, error |-> ""]

\* RequestRecord, and the key without one
NoRecord == [count |-> 0, windowStart |-> -1]

Providers == {"deepseek"}
Keys == {"deepseek-chat"}

\* new RateLimiter: an empty map of records
NoRecords == [key \in Keys |-> NoRecord]

\* getAILimiter has not created the provider's limiter yet
NoLimiter == [created |-> FALSE, records |-> NoRecords]

\* module load: `new RateLimitManager()` builds the Binance limiter, whose
\* window starts at Date.now(); no call has been made
LimitersIdle ==
    /\ now = 0
    /\ binance = [weightUsed |-> 0, windowStart |-> 0, records |-> NoRecords]
    /\ ai = [provider \in Providers |-> NoLimiter]
    /\ answer = [op |-> "none", weight |-> 0, value |-> 0, granted |-> FALSE]

\* no TradingError
NoError == [type |-> "", retryable |-> FALSE]

\* no wrapped function has been called
NoCall ==
    [pc |-> "idle", attempt |-> 0, maxRetries |-> 0, retryDelay |-> 0,
     outcomes |-> <<>>, waits |-> <<>>, thrown |-> NoError]

HandlerIdle ==
    /\ call = NoCall
    /\ errors = <<>>

\* calculateMACD has not been called
NoMacdCall ==
    [status |-> "none", data |-> <<>>, fastPeriod |-> 0, slowPeriod |-> 0,
     signalPeriod |-> 0, macd |-> <<>>, signal |-> <<>>, histogram |-> <<>>]

NoResult ==
    [returned |-> FALSE, initialCapital |-> 0, finalCapital |-> 0, totalReturn |-> 0,
     totalTrades |-> 0, wins |-> 0, losses |-> 0, profitFactor |-> JsUndefined,
     maxDrawdown |-> 0, maxDrawdownPercent |-> 0,
     trades |-> <<>>, equityCurve |-> <<>>, drawdownCurve |-> <<>>]

GenerateResult(e) ==
    LET totalWin == TotalWin(e.trades, Len(e.trades))
        totalLoss == TotalLoss(e.trades, Len(e.trades))
        loop == DrawdownLoop(e.equityCurve)
    IN [returned |-> TRUE,
        initialCapital |-> Usd(InitialCapital),
        finalCapital |-> e.currentCapital,
        totalReturn |-> e.currentCapital - Usd(InitialCapital),
        totalTrades |-> Len(e.trades),
        wins |-> CountWins(e.trades, Len(e.trades)),
        losses |-> CountLosses(e.trades, Len(e.trades)),
        profitFactor |-> ProfitFactor(totalWin, totalLoss),
        maxDrawdown |-> loop.maxDrawdown,
        maxDrawdownPercent |-> (loop.maxDrawdown * DrawdownScale) \div loop.peak,
        trades |-> e.trades,
        equityCurve |-> e.equityCurve,
        drawdownCurve |-> loop.drawdownCurve]

----------------------------------------------------------------------------
(* The state machine of one run(klines) on a freshly constructed engine *)

SetEngine(e) ==
    /\ currentCapital' = e.currentCapital
    /\ currentPosition' = e.currentPosition
    /\ trades' = e.trades
    /\ equityCurve' = e.equityCurve
    /\ maxEquity' = e.maxEquity
    /\ opens' = e.opens

\* the engine as its constructor leaves it, run() not yet begun
Started ==
    /\ pc = "start"
    /\ i = 0
    /\ currentCapital = Usd(InitialCapital)
    /\ currentPosition = NoPosition
    /\ trades = <<>>
    /\ equityCurve = <<>>
    /\ maxEquity = Usd(InitialCapital)
    /\ aiInput = NoInput
    /\ response = NoResponse
    /\ decision = NoDecision
    /\ requestCount = 0
    /\ posts = <<>>
    /\ opens = <<>>
    /\ result = NoResult

\* nothing rendered, nothing else under way
OutsideIdle ==
    /\ rendered = NothingRendered
    /\ order = NoOrder
    /\ macdCall = NoMacdCall
    /\ LimitersIdle
    /\ HandlerIdle

Init ==
    /\ klines \in AllSeries
    /\ oracle = FreeOracle
    /\ Started
    /\ OutsideIdle

\* run() up to the loop: reading klines[0].openTime of an empty series throws
RunStart ==
    /\ pc = "start"
    /\ IF Len(klines) = 0
       THEN /\ pc' = "failed"
            /\ UNCHANGED <<i, equityCurve>>
       ELSE /\ equityCurve' = Append(equityCurve, [time |-> At(klines, 0).openTime,
                                                   equity |-> currentCapital])
            /\ i' = WarmUp
            /\ pc' = "check"
    /\ UNCHANGED <<klines, oracle, currentCapital, currentPosition, trades, maxEquity,
                   aiInput, response, decision, requestCount, posts, opens, result>>
    /\ UNCHANGED outside

\* loop body, first part: stop-loss / take-profit of the open position
CheckExit ==
    /\ pc = "check"
    /\ i < Len(klines)
    /\ LET e == ExitStep(Engine, klines, i)
       IN /\ SetEngine(e)
          /\ pc' = IF ShouldTryOpen(e.currentPosition) THEN "open" ELSE "equity"
    /\ UNCHANGED <<klines, oracle, i, aiInput, response, decision, requestCount,
                   posts, result>>
    /\ UNCHANGED outside

\* tryOpenPosition: the snapshot is built and makeDecision posts it; the
\* outcome of the HTTP call is in flight from here on
CallOracle ==
    /\ pc = "open"
    /\ aiInput' = BuildInput(Engine, klines, i)
    /\ \E behaviour \in Answers(oracle, i) : response' = AxiosTimeout(behaviour)
    /\ posts' = Append(posts, [bar |-> i, settled |-> FALSE])
    /\ pc' = "await"
    /\ UNCHANGED <<klines, oracle, i, currentCapital, currentPosition, trades,
                   equityCurve, maxEquity, decision, requestCount, opens, result>>
    /\ UNCHANGED outside

\* the post settles and makeDecision resolves (a rejection would end run())
MakeDecisionResolves ==
    /\ pc = "await"
    /\ response.kind # "silent"
    /\ decision' = MakeDecision(response)
    /\ requestCount' = IF CountsAsRequest(response) THEN requestCount + 1
                       ELSE requestCount
    /\ posts' = [posts EXCEPT ![Len(posts)].settled = TRUE]
    /\ pc' = IF decision'.threw THEN "failed" ELSE "decided"
    /\ UNCHANGED <<klines, oracle, i, currentCapital, currentPosition, trades,
                   equityCurve, maxEquity, aiInput, response, opens, result>>
    /\ UNCHANGED outside

\* tryOpenPosition from `const decision = await ...` to its end
OpenPosition ==
    /\ pc = "decided"
    /\ SetEngine(OpenStep(Engine, At(klines, i), decision))
    /\ pc' = "equity"
    /\ UNCHANGED <<klines, oracle, i, aiInput, response, decision, requestCount,
                   posts, result>>
    /\ UNCHANGED outside

\* loop body, last part: the equity point of the bar, then i++
RecordEquity ==
    /\ pc = "equity"
    /\ SetEngine(EquityStep(Engine, At(klines, i)))
    /\ i' = i + 1
    /\ response' = NoResponse
    /\ decision' = NoDecision
    /\ pc' = "check"
    /\ UNCHANGED <<klines, oracle, aiInput, requestCount, posts, result>>
    /\ UNCHANGED outside

\* after the loop: forced close, then generateResult
Finish ==
    /\ pc = "check"
    /\ i >= Len(klines)
    /\ LET e == ForcedClose(Engine, klines)
       IN /\ SetEngine(e)
          /\ result' = GenerateResult(e)
    /\ pc' = "done"
    /\ UNCHANGED <<klines, oracle, i, aiInput, response, decision, requestCount, posts>>
    /\ UNCHANGED outside

Next ==
    \/ RunStart
    \/ CheckExit
    \/ CallOracle
    \/ MakeDecisionResolves
    \/ OpenPosition
    \/ RecordEquity
    \/ Finish

Spec == Init /\ [][Next]_vars

\* -------------------------------------------------------------------------
\* The report after run() returned, and BacktestReporter
\* -------------------------------------------------------------------------

\* generateResult hands out `trades: this.trades, equityCurve: this.equityCurve`:
\* the returned object reads both through the engine's own arrays
Report ==
    IF result.returned
    THEN [result EXCEPT !.trades = trades, !.equityCurve = equityCurve]
    ELSE result

\* [...ts].sort((a, b) => sign * (a.pnl - b.pnl)): the copy of ts by rising
\* pnl (sign 1) or falling pnl (sign -1), equal elements keeping their order
SortedByPnl(ts, sign) ==
    LET n == Len(ts)
        p == CHOOSE q \in [1..n -> 1..n] :
                 /\ \A a, b \in 1..n : a # b => q[a] # q[b]
                 /\ \A a, b \in 1..n :
                        a < b => \/ sign * ts[q[a]].pnl < sign * ts[q[b]].pnl
                                 \/ (ts[q[a]].pnl = ts[q[b]].pnl /\ q[a] < q[b])
    IN [k \in 1..n |-> ts[p[k]]]

\* slice(0, n) and slice(-n)
SliceFirst(ts, n) == SubSeq(ts, 1, IF Len(ts) < n THEN Len(ts) ELSE n)
SliceLast(ts, n) == SubSeq(ts, IF Len(ts) < n THEN 1 ELSE Len(ts) - n + 1, Len(ts))

BestTrades(ts) == SliceFirst(SortedByPnl(ts, -1), TopTrades)
WorstTrades(ts) == SliceFirst(SortedByPnl(ts, 1), TopTrades)

\* printReport: the figures, then the best and the worst trades
PrintReport ==
    /\ result.returned
    /\ rendered' = [kind |-> "console", best |-> BestTrades(Report.trades),
                    worst |-> WorstTrades(Report.trades), rows |-> <<>>,
                    curve |-> <<>>]
    /\ UNCHANGED <<backtestVars, order, macdCall, limiterVars, handlerVars>>

\* generateMarkdown: the figures, then the most recent trades
GenerateMarkdown ==
    /\ result.returned
    /\ rendered' = [kind |-> "markdown", best |-> <<>>, worst |-> <<>>,
                    rows |-> SliceLast(Report.trades, RecentTrades), curve |-> <<>>]
    /\ UNCHANGED <<backtestVars, order, macdCall, limiterVars, handlerVars>>

\* generateJSON: everything the report holds
GenerateJSON ==
    /\ result.returned
    /\ rendered' = [kind |-> "json", best |-> <<>>, worst |-> <<>>,
                    rows |-> Report.trades, curve |-> Report.equityCurve]
    /\ UNCHANGED <<backtestVars, order, macdCall, limiterVars, handlerVars>>

\* runs made so far: one run() over klines pushes the seed and one equity
\* point per bar
RunsDone ==
    Len(equityCurve)
        \div (1 + (IF Len(klines) > WarmUp THEN Len(klines) - WarmUp ELSE 0))

\* run(klines) is called again on the engine that has just returned: nothing
\* of the engine is reset on the way in
RunAgain ==
    /\ pc = "done"
    /\ RunsDone < MaxRuns
    /\ pc' = "start"
    /\ UNCHANGED <<klines, oracle, i, currentCapital, currentPosition, trades,
                   equityCurve, maxEquity, aiInput, response, decision, requestCount,
                   posts, opens, result>>
    /\ UNCHANGED outside

ReportInit ==
    /\ klines \in SeriesOfLen(WarmUp + 1)
    /\ oracle = FreeOracle
    /\ Started
    /\ OutsideIdle

ReportNext ==
    \/ Next
    \/ RunAgain
    \/ PrintReport
    \/ GenerateMarkdown
    \/ GenerateJSON

ReportSpec == ReportInit /\ [][ReportNext]_vars

\* -------------------------------------------------------------------------
\* TradingEngine.executeOrder
\* balance and price are whole dollars; a quantity is counted in the
\* increments roundQuantity rounds to (Precision of them to the unit)
\* -------------------------------------------------------------------------

Symbols == {"BTCUSDT", "ETHUSDT", "BNBUSDT", "SOLUSDT", "DOGEUSDT"}

\* symbol.includes(part), on the symbols above
Includes(symbol, part) == symbol = part \o "USDT"

\* Math.round of num / den, both positive: halves go up
MathRound(num, den) == (2 * num + den) \div (2 * den)

\* the factor roundQuantity multiplies by before rounding and divides by after
Precision(symbol) ==
    IF Includes(symbol, "BTC") THEN 1000
    ELSE IF Includes(symbol, "ETH") THEN 1000
    ELSE IF Includes(symbol, "BNB") \/ Includes(symbol, "SOL") THEN 10
    ELSE 1000

\* roundQuantity(symbol, num / den), in increments
RoundQuantity(symbol, num, den) == MathRound(num * Precision(symbol), den)

\* Validator.validateRiskParams: the error it throws, "" if none
ValidateRiskParams(balance, positionSize, leverage) ==
    IF balance < MinBalance THEN "TRADING_RISK_EXCEEDED"
    ELSE IF balance * positionSize * leverage < MinOrderNotional * 100
         THEN "TRADING_INVALID_PARAMS"
    ELSE IF positionSize > MaxPositionSize THEN "TRADING_RISK_EXCEEDED"
    ELSE ""

\* executeOrder: the risk parameters are validated, the notional value is
\* checked against the minimum, the quantity is rounded, the order goes out
ExecuteOrder ==
    /\ order.status = "called"
    /\ LET invalid == ValidateRiskParams(order.balance, order.positionSize,
                                         order.leverage)
           \* notionalValue = balance * positionSize / 100 * leverage
           hundredths == order.balance * order.positionSize * order.leverage
       IN IF invalid # ""
          THEN order' = [order EXCEPT !.status = "thrown", !.error = invalid]
          ELSE IF hundredths < MinOrderNotional * 100
          THEN order' = [order EXCEPT !.status = "thrown",
                                      !.error = "TRADING_INVALID_PARAMS"]
          ELSE order' = [order EXCEPT
                           !.status = "submitted",
                           !.quantity = RoundQuantity(order.symbol, hundredths,
                                                      100 * order.price)]
    /\ UNCHANGED <<backtestVars, rendered, macdCall, limiterVars, handlerVars>>

\* executeTradingCycle has a BUY or SELL decision of sufficient confidence,
\* the account's balance and the current price, and calls executeOrder
OrderInit ==
    /\ klines = <<>>
    /\ oracle = FreeOracle
    /\ Started
    /\ rendered = NothingRendered
    /\ macdCall = NoMacdCall
    /\ LimitersIdle
    /\ HandlerIdle
    /\ \E symbol \in Symbols, action \in {"BUY", "SELL"},
          balance \in {19, 20, 100, 200},
          price \in {10, 14, 3000, 30000, 50000, 100000},
          positionSize \in {MinPositionSize, DefaultPositionSize, MaxPositionSize},
          leverage \in {MinLeverage, DefaultLeverage, MaxLeverage} :
          order = [NoOrder EXCEPT !.status = "called", !.symbol = symbol,
                                  !.action = action, !.balance = balance,
                                  !.price = price, !.positionSize = positionSize,
                                  !.leverage = leverage]

OrderSpec == OrderInit /\ [][ExecuteOrder]_vars

\* -------------------------------------------------------------------------
\* The indicator library: calculateEMA, calculateMACD, getLatest
\* A number is an exact fraction num / den in lowest terms (the rounding of
\* floating point is left out), NaN the marker of a value not yet available
\* -------------------------------------------------------------------------

RECURSIVE Gcd(_, _)
Gcd(a, b) == IF b = 0 THEN a ELSE Gcd(b, a % b)

NotANumber == [kind |-> "NaN", num |-> 0, den |-> 1]
Null == [kind |-> "null", num |-> 0, den |-> 1]

Number(n, d) ==
    LET g == Gcd(IF n < 0 THEN -n ELSE n, d)
    IN [kind |-> "number", num |-> n \div g, den |-> d \div g]

IsNaN(v) == v.kind = "NaN"

Add(a, b) ==
    IF IsNaN(a) \/ IsNaN(b) THEN NotANumber
    ELSE Number(a.num * b.den + b.num * a.den, a.den * b.den)

Sub(a, b) ==
    IF IsNaN(a) \/ IsNaN(b) THEN NotANumber
    ELSE Number(a.num * b.den - b.num * a.den, a.den * b.den)

Mul(a, b) ==
    IF IsNaN(a) \/ IsNaN(b) THEN NotANumber
    ELSE Number(a.num * b.num, a.den * b.den)

\* a || NaN: 0 and NaN are falsy
OrNaN(a) == IF IsNaN(a) \/ a.num = 0 THEN NotANumber ELSE a

\* data.slice(0, n).reduce((a, b) => a + b, 0)
RECURSIVE SumFirst(_, _)
SumFirst(data, n) ==
    IF n = 0 THEN Number(0, 1) ELSE Add(SumFirst(data, n - 1), data[n])

\* the value of `ema` when the loop of calculateEMA is at the k-th element,
\* k >= period
RECURSIVE EmaAt(_, _, _)
EmaAt(data, period, k) ==
    IF k = period
    THEN Mul(SumFirst(data, period), Number(1, period))
    ELSE LET ema == EmaAt(data, period, k - 1)
             multiplier == Number(2, period + 1)
         IN Add(Mul(Sub(data[k], ema), multiplier), ema)

CalculateEMA(data, period) ==
    [k \in 1..Len(data) |-> IF k < period THEN NotANumber ELSE EmaAt(data, period, k)]

IsAvailable(v) == ~IsNaN(v)

\* macd.filter((v) => !isNaN(v)) of the first k elements
ValidUpTo(line, k) == SelectSeq(SubSeq(line, 1, k), IsAvailable)

CalculateMACD(data, fastPeriod, slowPeriod, signalPeriod) ==
    LET fastEMA == CalculateEMA(data, fastPeriod)
        slowEMA == CalculateEMA(data, slowPeriod)
        macd == [k \in 1..Len(data) |->
                    IF IsNaN(fastEMA[k]) \/ IsNaN(slowEMA[k]) THEN NotANumber
                    ELSE Sub(fastEMA[k], slowEMA[k])]
        validMacd == ValidUpTo(macd, Len(macd))
        signalEMA == CalculateEMA(validMacd, signalPeriod)
        \* signalIndex counts the available elements of macd before the k-th
        signal == [k \in 1..Len(macd) |->
                      IF IsNaN(macd[k]) THEN NotANumber
                      ELSE OrNaN(signalEMA[Len(ValidUpTo(macd, k))])]
        histogram == [k \in 1..Len(macd) |->
                         IF IsNaN(macd[k]) \/ IsNaN(signal[k]) THEN NotANumber
                         ELSE Sub(macd[k], signal[k])]
    IN [macd |-> macd, signal |-> signal, histogram |-> histogram]

\* getLatest: the last element that is not NaN, null if there is none
GetLatest(arr) ==
    LET valid == SelectSeq(arr, IsAvailable)
    IN IF Len(valid) = 0 THEN Null ELSE valid[Len(valid)]

CalculateMACDReturns ==
    /\ macdCall.status = "called"
    /\ LET out == CalculateMACD(macdCall.data, macdCall.fastPeriod,
                                macdCall.slowPeriod, macdCall.signalPeriod)
       IN macdCall' = [macdCall EXCEPT !.status = "returned", !.macd = out.macd,
                                       !.signal = out.signal,
                                       !.histogram = out.histogram]
    /\ UNCHANGED <<backtestVars, rendered, order, limiterVars, handlerVars>>

\* the sequences of up to MaxData closing prices, each 1 or 3
DataSeries == UNION {[1..n -> {Number(1, 1), Number(3, 1)}] : n \in 0..MaxData}

MacdInit ==
    /\ klines = <<>>
    /\ oracle = FreeOracle
    /\ Started
    /\ rendered = NothingRendered
    /\ order = NoOrder
    /\ LimitersIdle
    /\ HandlerIdle
    /\ \E data \in DataSeries, fastPeriod \in {1, 2}, slowPeriod \in {2, 3},
          signalPeriod \in {1, 2} :
          macdCall = [NoMacdCall EXCEPT !.status = "called", !.data = data,
                                        !.fastPeriod = fastPeriod,
                                        !.slowPeriod = slowPeriod,
                                        !.signalPeriod = signalPeriod]

MacdSpec == MacdInit /\ [][CalculateMACDReturns]_vars

\* -------------------------------------------------------------------------
\* The rate limiters: RateLimiter, BinanceRateLimiter, AIRateLimiter and
\* RateLimitManager
\* -------------------------------------------------------------------------

\* AIRateLimiter's configs[provider].maxRequests
MaxRequests(provider) == DeepseekMaxRequests

\* RateLimiter.checkLimit at time t: the records afterwards and the answer
CheckLimit(records, maxRequests, key, t) ==
    LET record == records[key]
    IN IF record = NoRecord
       THEN [records |-> [records EXCEPT ![key] = [count |-> 1, windowStart |-> t]],
             granted |-> TRUE]
       ELSE IF t - record.windowStart > WindowMs
       THEN [records |-> [records EXCEPT ![key] = [count |-> 1, windowStart |-> t]],
             granted |-> TRUE]
       ELSE IF record.count < maxRequests
       THEN [records |-> [records EXCEPT ![key].count = @ + 1], granted |-> TRUE]
       ELSE [records |-> records, granted |-> FALSE]

\* RateLimiter.clear
Clear(limiter) == [limiter EXCEPT !.records = NoRecords]

\* checkWeight without its limit
CheckWeightUnlimited(limiter, weight, t) ==
    [limiter |-> [limiter EXCEPT !.weightUsed = @ + weight], granted |-> TRUE]

\* BinanceRateLimiter.checkWeight at time t: the limiter afterwards and the
\* answer
CheckWeight(limiter, weight, t) ==
    LET reset == IF t - limiter.windowStart > WindowMs
                 THEN [limiter EXCEPT !.weightUsed = 0, !.windowStart = t]
                 ELSE limiter
    IN IF reset.weightUsed + weight > BinanceMaxWeight
       THEN [limiter |-> reset, granted |-> FALSE]
       ELSE [limiter |-> [reset EXCEPT !.weightUsed = @ + weight], granted |-> TRUE]

\* BinanceRateLimiter.getRemainingWeight
GetRemainingWeight(limiter) ==
    IF BinanceMaxWeight - limiter.weightUsed > 0
    THEN BinanceMaxWeight - limiter.weightUsed
    ELSE 0

\* request weights: two that fit the limit together only once, and one
\* heavier than the whole limit
Weights == {600, 601, 1201}

\* getBinanceLimiter().checkWeight(weight)
CallCheckWeight ==
    \E weight \in Weights :
        LET out == CheckWeight(binance, weight, now)
        IN /\ binance' = out.limiter
           /\ answer' = [op |-> "checkWeight", weight |-> weight, value |-> 0,
                         granted |-> out.granted]
           /\ UNCHANGED <<backtestVars, handlerVars, rendered, order, macdCall, now, ai>>

\* getBinanceLimiter().getRemainingWeight()
CallGetRemainingWeight ==
    /\ answer' = [op |-> "getRemainingWeight", weight |-> 0,
                  value |-> GetRemainingWeight(binance), granted |-> FALSE]
    /\ UNCHANGED <<backtestVars, handlerVars, rendered, order, macdCall, now, binance, ai>>

\* getAILimiter(provider).checkLimit(key): the limiter is created on first use
CallCheckLimit ==
    \E provider \in Providers, key \in Keys :
        LET out == CheckLimit(ai[provider].records, MaxRequests(provider), key, now)
        IN /\ ai' = [ai EXCEPT ![provider] = [created |-> TRUE,
                                              records |-> out.records]]
           /\ answer' = [op |-> "checkLimit", weight |-> 0, value |-> 0,
                         granted |-> out.granted]
           /\ UNCHANGED <<backtestVars, handlerVars, rendered, order, macdCall, now, binance>>

\* RateLimitManager.resetAll: clear() on the Binance limiter and on every AI
\* limiter created so far
ResetAll ==
    /\ binance' = Clear(binance)
    /\ ai' = [provider \in Providers |->
                 IF ai[provider].created THEN Clear(ai[provider]) ELSE ai[provider]]
    /\ answer' = [op |-> "resetAll", weight |-> 0, value |-> 0, granted |-> FALSE]
    /\ UNCHANGED <<backtestVars, handlerVars, rendered, order, macdCall, now>>

\* time passes: half a window, or a millisecond more
Tick ==
    /\ \E step \in {WindowMs \div 2, WindowMs \div 2 + 1} :
          /\ now + step <= MaxWindows * WindowMs + 2
          /\ now' = now + step
    /\ UNCHANGED <<backtestVars, handlerVars, rendered, order, macdCall,
                   binance, ai, answer>>

LimiterInit ==
    /\ klines = <<>>
    /\ oracle = FreeOracle
    /\ Started
    /\ OutsideIdle

LimiterNext ==
    \/ CallCheckWeight
    \/ CallGetRemainingWeight
    \/ CallCheckLimit
    \/ ResetAll
    \/ Tick

LimiterSpec == LimiterInit /\ [][LimiterNext]_vars

\* -------------------------------------------------------------------------
\* withErrorHandling, classifyError and ErrorLogger
\* -------------------------------------------------------------------------

\* what the wrapped function throws, by what classifyError reads of it:
\* response.data.code (0 if there is none), whether response.data.msg holds
\* 'insufficient balance', response.status, whether message holds 'timeout',
\* code and name
Thrown(dataCode, insufficient, status, timeout, code, name) ==
    [dataCode |-> dataCode, insufficient |-> insufficient, status |-> status,
     timeout |-> timeout, code |-> code, name |-> name]

\* the wrapped function resolves
Resolved == Thrown(0, FALSE, 0, FALSE, "", "resolved")

Failures ==
    {Thrown(-1003, FALSE, 418, FALSE, "ERR_BAD_REQUEST", "AxiosError"),
     Thrown(-2019, FALSE, 400, FALSE, "ERR_BAD_REQUEST", "AxiosError"),
     Thrown(-1121, TRUE, 400, FALSE, "ERR_BAD_REQUEST", "AxiosError"),
     Thrown(-1111, FALSE, 400, FALSE, "ERR_BAD_REQUEST", "AxiosError"),
     Thrown(-1021, FALSE, 400, FALSE, "ERR_BAD_REQUEST", "AxiosError"),
     Thrown(0, FALSE, 429, FALSE, "ERR_BAD_REQUEST", "AxiosError"),
     Thrown(0, FALSE, 0, TRUE, "ECONNABORTED", "AxiosError"),
     Thrown(0, FALSE, 0, FALSE, "ECONNREFUSED", "Error"),
     Thrown(0, FALSE, 0, FALSE, "P2002", "PrismaClientKnownRequestError"),
     Thrown(0, FALSE, 0, FALSE, "", "Error")}

TradingError(type, retryable) == [type |-> type, retryable |-> retryable]

ClassifyError(error) ==
    IF error.dataCode # 0
    THEN IF error.dataCode = -1003 \/ error.dataCode = 429
         THEN TradingError("BINANCE_RATE_LIMIT", TRUE)
         ELSE IF error.dataCode = -2019 \/ error.insufficient
         THEN TradingError("BINANCE_INSUFFICIENT_BALANCE", FALSE)
         ELSE IF error.dataCode = -1111 \/ error.dataCode = -4164
                 \/ error.dataCode = -1106
         THEN TradingError("BINANCE_INVALID_ORDER", FALSE)
         ELSE TradingError("BINANCE_API_ERROR",
                           error.dataCode >= -1000 /\ error.dataCode < -1100)
    ELSE IF error.status = 429 THEN TradingError("AI_RATE_LIMIT", TRUE)
    ELSE IF error.timeout THEN TradingError("AI_TIMEOUT", TRUE)
    ELSE IF error.code = "ECONNREFUSED" \/ error.code = "ETIMEDOUT"
    THEN TradingError("NETWORK_ERROR", TRUE)
    ELSE IF error.name = "PrismaClientKnownRequestError"
    THEN TradingError("DATABASE_ERROR", FALSE)
    ELSE TradingError("UNKNOWN_ERROR", FALSE)

\* ErrorLogger.log: the list is kept within maxErrors
Log(list, error) ==
    LET pushed == Append(list, error)
    IN IF Len(pushed) > MaxErrors THEN Tail(pushed) ELSE pushed

\* a wrapper that gives up on the last attempt only
RethrowAtLastOnly(tradingError, attempt, maxRetries) == attempt = maxRetries

\* `!tradingError.retryable || attempt === maxRetries`
Rethrow(tradingError, attempt, maxRetries) ==
    ~tradingError.retryable \/ attempt = maxRetries

\* one turn of the loop: fn is called and settles; a rejection is classified
\* and logged, then rethrown or followed by the timer of the retry
Invoke ==
    /\ call.pc = "invoking"
    /\ call.attempt <= call.maxRetries
    /\ \E outcome \in {Resolved} \cup Failures :
          IF outcome = Resolved
          THEN /\ call' = [call EXCEPT !.pc = "returned",
                                       !.outcomes = Append(@, outcome)]
               /\ UNCHANGED errors
          ELSE LET tradingError == ClassifyError(outcome)
               IN /\ errors' = Log(errors, tradingError)
                  /\ IF Rethrow(tradingError, call.attempt, call.maxRetries)
                     THEN call' = [call EXCEPT !.pc = "thrown",
                                               !.outcomes = Append(@, outcome),
                                               !.thrown = tradingError]
                     ELSE call' = [call EXCEPT
                                     !.pc = "waiting",
                                     !.outcomes = Append(@, outcome),
                                     !.waits = Append(@, call.retryDelay
                                                           * 2 ^ call.attempt)]
    /\ UNCHANGED <<backtestVars, rendered, order, macdCall, limiterVars>>

\* the timer of the retry fires: attempt++
RetryTimerFires ==
    /\ call.pc = "waiting"
    /\ call' = [call EXCEPT !.pc = "invoking", !.attempt = @ + 1]
    /\ UNCHANGED <<backtestVars, rendered, order, macdCall, limiterVars, errors>>

\* the options of the wrapper: the defaults, the engine's, and fewer retries
HandlerInit ==
    /\ klines = <<>>
    /\ oracle = FreeOracle
    /\ Started
    /\ rendered = NothingRendered
    /\ order = NoOrder
    /\ macdCall = NoMacdCall
    /\ LimitersIdle
    /\ errors = <<>>
    /\ \E maxRetries \in 0..MaxRetriesTried, retryDelay \in {DefaultRetryDelay, EngineRetryDelay} :
          call = [NoCall EXCEPT !.pc = "invoking", !.maxRetries = maxRetries,
                                !.retryDelay = retryDelay]

HandlerNext ==
    \/ Invoke
    \/ RetryTimerFires

HandlerSpec == HandlerInit /\ [][HandlerNext]_vars

\* the end-to-end scenario: a rising series of 250 bars, and the stub that
\* answers BUY once, on the 201st bar (the first processed one) or on the bar
\* of index 201
ScenarioInit ==
    /\ klines \in ScenarioSeries
    /\ oracle \in {Stub(WarmUp), Stub(WarmUp + 1)}
    /\ Started
    /\ OutsideIdle

ScenarioSpec == ScenarioInit /\ [][Next]_vars

\* run() is driven on: a continuation that can run does run, and a post the
\* server answers, or the client's time limit ends, settles
LiveSpec == Spec /\ WF_vars(Next)


----------------------------------------------------------------------------
(* Conditions the properties speak of *)

\* the bar reaches the stop-loss level of the position
StopLossHit(pos, kline) ==
    IF pos.side = "LONG" THEN kline.low <= pos.stopLoss ELSE kline.high >= pos.stopLoss

\* the bar reaches the take-profit level of the position
TakeProfitHit(pos, kline) ==
    IF pos.side = "LONG" THEN kline.high >= pos.takeProfit ELSE kline.low <= pos.takeProfit

\* a failure of the oracle call: no answer, a timeout, a rate limit, a body
\* without the message, or a message without JSON in it
IsOracleFailure(r) ==
    r.kind \in FailureKinds \/ (r.kind = "ok" /\ ~r.content.hasJson)

\* the confidence is a number and at least the configured minimum
ConfidenceMeetsMin(d) == d.confidence.t = "number" /\ d.confidence.n >= MinConfidence

\* the confidence is a number below the configured minimum
ConfidenceUnderMin(d) == d.confidence.t = "number" /\ d.confidence.n < MinConfidence

\* an answer without one of action, confidence, reasoning
LacksRequired(o) ==
    o.action = JsUndefined \/ o.confidence = JsUndefined \/ o.reasoning = JsUndefined

\* v is a number within lo..hi
InRange(v, lo, hi) == v.t = "number" /\ lo <= v.n /\ v.n <= hi

\* the series that agree with ks on the bars 0..idx and go on in any way
Alternatives(ks, idx) ==
    UNION {{[j \in 1..n |-> IF j <= idx + 1 THEN ks[j]
                            ELSE Kline(j - 1, f[j - idx - 1].open, f[j - idx - 1].high,
                                       f[j - idx - 1].low, f[j - idx - 1].close)] :
              f \in [1..(n - idx - 1) -> Shapes]} :
           n \in (idx + 1)..(WarmUp + MaxBars)}

LastTrade(ts) == ts[Len(ts)]

\* the step closes the position: one trade is appended
Closes == Len(trades') = Len(trades) + 1

\* the side-aware price move of a trade, as a fraction of its entry price
Move(t) ==
    IF t.side = "LONG" THEN ((t.exitPrice - t.entryPrice) * FracScale) \div t.entryPrice
    ELSE ((t.entryPrice - t.exitPrice) * FracScale) \div t.entryPrice

\* move * notional value at entry * leverage
Gross(t) ==
    ((Move(t) * ((t.quantity * t.entryPrice) \div QtyScale)) \div FracScale) * t.leverage

----------------------------------------------------------------------------
(* Properties *)

\* C1: the engine holds no position or exactly one: every position ever opened
\* is a recorded trade, except the live one, which is the one opened last; an
\* open never replaces a live position.
C1_AtMostOnePosition ==
    /\ Len(opens) - Len(trades) = (IF currentPosition = NoPosition THEN 0 ELSE 1)
    /\ currentPosition # NoPosition =>
         /\ opens[Len(opens)].time = currentPosition.entryTime
         /\ opens[Len(opens)].entryPrice = currentPosition.entryPrice

\* a second position is live after the first one was closed
C1_Witness == currentPosition # NoPosition /\ Len(trades) >= 1

\* C2: on a bar that reaches both the stop-loss and the take-profit level of the
\* open position (LONG or SHORT), the position is closed with reason STOP_LOSS
\* at its stop-loss price.
C2_TieBreak ==
    [][(/\ pc = "check"
        /\ i < Len(klines)
        /\ currentPosition # NoPosition
        /\ StopLossHit(currentPosition, At(klines, i))
        /\ TakeProfitHit(currentPosition, At(klines, i)))
       => (/\ currentPosition' = NoPosition
           /\ Len(trades') = Len(trades) + 1
           /\ LastTrade(trades').reason = "STOP_LOSS"
           /\ LastTrade(trades').exitPrice = currentPosition.stopLoss)]_vars

\* a LONG opened with the default levels (2% below, 4% above its entry) was
\* stopped out on a bar that reached both of them
C2_Witness ==
    \E k \in 1..Len(trades) :
        LET t == trades[k]
            bar == At(klines, t.exitTime)
        IN /\ t.reason = "STOP_LOSS"
           /\ t.side = "LONG"
           /\ t.exitPrice = (t.entryPrice * (PctScale - Pct(DefaultStopLoss))) \div PctScale
           /\ bar.low <= t.exitPrice
           /\ bar.high >= (t.entryPrice * (PctScale + Pct(DefaultTakeProfit))) \div PctScale

\* C3: every recorded trade has entryTime < exitTime.
C3_EntryBeforeExit ==
    \A k \in 1..Len(trades) : trades[k].entryTime < trades[k].exitTime

\* C4: a run on a series shorter than the warm-up window fails before anything
\* is done: no equity point, no oracle call, no report.
C4_ShortSeriesFails ==
    (Len(klines) < WarmUp /\ pc # "start") =>
        (/\ pc = "failed"
         /\ equityCurve = <<>>
         /\ aiInput = NoInput
         /\ ~result.returned)

C6_OpenOnlyOnConfidentEntry ==
    [][pc = "decided" =>
        /\ currentPosition' # NoPosition =>
             (/\ currentPosition = NoPosition
              /\ IsEntry(decision)
              /\ ConfidenceMeetsMin(decision))
        /\ (~IsEntry(decision) \/ ConfidenceUnderMin(decision)) =>
             (currentPosition' = NoPosition /\ currentCapital' = currentCapital)]_vars

\* C7: an entry whose notional value is below the minimum notional is rejected:
\* the engine stays flat, no commission is deducted, the run goes on.
C7_BelowMinNotionalRejected ==
    [][(/\ pc = "decided"
        /\ IsEntry(decision)
        /\ ~BelowMinConfidence(decision)
        /\ RequestedNotional(Engine, decision) < Usd(MinNotional))
       => (/\ currentPosition' = NoPosition
           /\ currentCapital' = currentCapital
           /\ pc' = "equity")]_vars

\* C8: an answer without a required field, or with a confidence that is not a
\* number, becomes HOLD with confidence 0 and opens no position.
C8_MalformedIsHold ==
    (/\ pc \in {"decided", "equity"}
     /\ response.kind = "ok"
     /\ response.content.hasJson
     /\ (LacksRequired(response.content.obj)
         \/ response.content.obj.confidence.t # "number"))
    => (/\ decision.action = JsStr("HOLD")
        /\ decision.confidence = JsNum(0)
        /\ pc = "equity" => currentPosition = NoPosition)

\* C9: every decision handed to the position logic has confidence in 0..100,
\* positionSize in 1..100 and leverage in 1..30.
C9_DecisionInRange ==
    pc = "decided" =>
        /\ InRange(decision.confidence, 0, MaxConfidence)
        /\ InRange(decision.positionSize, MinPositionSize, MaxPositionSize)
        /\ InRange(decision.leverage, MinLeverage, MaxLeverage)

\* C10: no step of the loop at bar i depends on a bar after i: run on any
\* series that agrees on the bars 0..i, the exit check, the snapshot for the
\* oracle, the open and the equity point come out the same.
C10_NoLookahead ==
    [][(pc \in {"check", "open", "decided", "equity"} /\ i < Len(klines)) =>
        \A K2 \in Alternatives(klines, i) :
            /\ pc = "check" => ExitStep(Engine, K2, i) = Engine'
            /\ pc = "open" => BuildInput(Engine, K2, i) = aiInput'
            /\ pc = "decided" => OpenStep(Engine, At(K2, i), decision) = Engine'
            /\ pc = "equity" => EquityStep(Engine, At(K2, i)) = Engine']_vars

\* bar i has been worked on with a position open, and some series that agrees
\* up to bar i goes on differently
C10_Witness ==
    /\ pc = "equity"
    /\ i < Len(klines)
    /\ currentPosition # NoPosition
    /\ \E K2 \in Alternatives(klines, i) : K2 # klines

\* C11: the oracle is called at most once per processed bar, in bar order, and
\* only while the engine is flat; every call but the one being awaited has
\* settled, and the awaited one settles before the equity point of its bar is
\* appended and before the next bar starts.
C11_OracleCalls ==
    /\ \A k \in 1..Len(posts) : WarmUp <= posts[k].bar /\ posts[k].bar <= i
    /\ \A k \in 1..(Len(posts) - 1) :
           posts[k].settled /\ posts[k].bar < posts[k + 1].bar
    /\ (Len(posts) > 0 /\ ~posts[Len(posts)].settled) <=> pc = "await"
    /\ pc \in {"await", "decided"} =>
           /\ posts[Len(posts)].bar = i
           /\ Len(equityCurve) = (i - WarmUp) + 1
    /\ pc = "await" => currentPosition = NoPosition

\* the oracle is being consulted on the bar whose stop-loss or take-profit
\* closed the position, after it was consulted on an earlier bar
C11_Witness ==
    /\ pc = "await"
    /\ Len(posts) >= 2
    /\ Len(trades) >= 1
    /\ LastTrade(trades).exitTime = i
    /\ LastTrade(trades).reason \in {"STOP_LOSS", "TAKE_PROFIT"}

\* C12: a position still open after the last bar is closed once, against the
\* final bar, with the forced-close reason, and recorded as a trade before the
\* report is assembled; the report is never built while a position is open.
C12_ForcedClose ==
    [][/\ (pc = "check" /\ i >= Len(klines) /\ currentPosition # NoPosition) =>
            (/\ Len(trades') = Len(trades) + 1
             /\ SubSeq(trades', 1, Len(trades)) = trades
             /\ LastTrade(trades').reason = "BACKTEST_END"
             /\ LastTrade(trades').entryTime = currentPosition.entryTime
             /\ LastTrade(trades').exitTime = At(klines, Len(klines) - 1).openTime)
       /\ result'.returned =>
            (currentPosition' = NoPosition /\ result'.trades = trades')
       /\ result.returned => trades' = trades]_vars

\* the run is over and its last trade is the forced close
C12_Witness ==
    /\ pc = "done"
    /\ result.returned
    /\ Len(trades) >= 1
    /\ LastTrade(trades).reason = "BACKTEST_END"
C14_ExitPrice ==
    [][Closes =>
        LET t == LastTrade(trades')
            lastClose == At(klines, Len(klines) - 1).close
        IN /\ t.reason \in {"STOP_LOSS", "TAKE_PROFIT", "BACKTEST_END"}
           /\ t.reason = "STOP_LOSS" => t.exitPrice = currentPosition.stopLoss
           /\ t.reason = "TAKE_PROFIT" => t.exitPrice = currentPosition.takeProfit
           /\ (t.reason = "BACKTEST_END" /\ t.side = "LONG") =>
                 t.exitPrice = (lastClose * (RateScale - SlippageRate)) \div RateScale
           /\ (t.reason = "BACKTEST_END" /\ t.side = "SHORT") =>
                 t.exitPrice = (lastClose * (RateScale + SlippageRate)) \div RateScale]_vars

\* a run with a take-profit exit away from the close of its bar, followed by a
\* forced close
C14_Witness ==
    /\ pc = "done"
    /\ Len(trades) = 2
    /\ trades[1].reason = "TAKE_PROFIT"
    /\ trades[1].exitPrice # At(klines, trades[1].exitTime).close
    /\ trades[2].reason = "BACKTEST_END"

\* C15: commission is charged twice per trade at the configured rate: entry
\* notional * rate leaves the capital at the open, exit notional * rate is
\* taken off the realized P&L at the close, and the capital does not change
\* in between.
C15_CommissionTwice ==
    [][/\ (pc = "decided" /\ currentPosition' # NoPosition) =>
            currentCapital - currentCapital' =
                (RequestedNotional(Engine, decision) * CommissionRate) \div RateScale
       /\ Closes =>
            LET t == LastTrade(trades')
            IN /\ t.commission =
                     (((t.quantity * t.exitPrice) \div QtyScale) * CommissionRate) \div RateScale
               /\ t.pnl = Gross(t) - t.commission
               /\ currentCapital' - currentCapital = t.pnl
       /\ (currentPosition # NoPosition /\ currentPosition' = currentPosition) =>
            currentCapital' = currentCapital]_vars

\* a SHORT was opened and closed, both commissions above zero
C15_Witness ==
    /\ Len(trades) >= 1
    /\ trades[1].side = "SHORT"
    /\ trades[1].commission > 0
    /\ Len(equityCurve) >= 2
    /\ equityCurve[2].equity < Usd(InitialCapital)

\* C16: for every closed trade pnl = f * (notional value at entry) * leverage
\* - exit commission, f the price move in the trade's favour as a fraction of
\* the entry price, and the capital after the close is the capital before
\* plus that pnl.
C16_RealizedPnL ==
    [][Closes =>
        LET t == LastTrade(trades')
            pos == currentPosition
            f == IF pos.side = "LONG"
                 THEN ((t.exitPrice - pos.entryPrice) * FracScale) \div pos.entryPrice
                 ELSE ((pos.entryPrice - t.exitPrice) * FracScale) \div pos.entryPrice
            notionalAtEntry == (pos.quantity * pos.entryPrice) \div QtyScale
        IN /\ t.pnl = ((f * notionalAtEntry) \div FracScale) * pos.leverage - t.commission
           /\ currentCapital' = currentCapital + t.pnl]_vars

\* a LONG closed with a gain and a SHORT closed with a loss are on record
C16_Witness ==
    \E a, b \in 1..Len(trades) :
        /\ trades[a].side = "LONG" /\ trades[a].pnl > 0
        /\ trades[b].side = "SHORT" /\ trades[b].pnl < 0
\* after the bar of the stub's BUY, some bar's high reaches the take-profit
\* price (4% above the entry price) and no low up to that bar reaches the
\* stop-loss price (2% below it); the entry price is the close of the BUY bar
\* raised by the slippage
ReachesTakeProfitFirst ==
    LET entry == (At(klines, oracle.buyAt).close * (RateScale + SlippageRate)) \div RateScale
        takeProfitPrice == (entry * (PctScale + Pct(4))) \div PctScale
        stopLossPrice == (entry * (PctScale - Pct(2))) \div PctScale
    IN \E j \in (oracle.buyAt + 1)..(Len(klines) - 1) :
           /\ At(klines, j).high >= takeProfitPrice
           /\ \A m \in (oracle.buyAt + 1)..j : At(klines, m).low > stopLossPrice

\* C17 as stated: in the end-to-end scenario (250 bars of rising closes, the
\* oracle answering BUY once at bar 201 and HOLD otherwise) the run records
\* exactly one trade and its exit reason is TAKE_PROFIT.
C17_ScenarioTakeProfit ==
    pc = "done" => (Len(trades) = 1 /\ trades[1].reason = "TAKE_PROFIT")

\* C17 amended: in the end-to-end scenario, if after the BUY bar some bar's
\* high reaches the take-profit price before any bar's low reaches the
\* stop-loss price, the run records exactly one trade and its exit reason is
\* TAKE_PROFIT.
C17_ScenarioReachingTakeProfit ==
    (pc = "done" /\ ReachesTakeProfitFirst) =>
        (Len(trades) = 1 /\ trades[1].reason = "TAKE_PROFIT")

\* the scenario ran to its report on a series that reaches the take-profit
\* price, and the one trade gained
C17_Witness ==
    /\ pc = "done"
    /\ oracle.scripted
    /\ ReachesTakeProfitFirst
    /\ Len(trades) = 1
    /\ trades[1].reason = "TAKE_PROFIT"
    /\ trades[1].pnl > 0
\* the largest drawdown value on a drawdown curve (0 on the empty curve)
MaxOnCurve(curve) == SetMax({0} \cup {curve[n].drawdown : n \in 1..Len(curve)})

\* the pnl of the gaining trades, and of the losing trades, added up
RECURSIVE SumOfPnl(_, _, _)
SumOfPnl(ts, n, gaining) ==
    IF n = 0 THEN 0
    ELSE SumOfPnl(ts, n - 1, gaining)
         + (IF gaining = (ts[n].pnl > 0) /\ ts[n].pnl # 0 THEN ts[n].pnl ELSE 0)

C19_MaxDrawdownPercent ==
    result.returned =>
        result.maxDrawdownPercent =
            MaxOnCurve(result.drawdownCurve)

\* C20: with no losing trade the report's profitFactor is 0; otherwise it is
\* the sum of the winning pnl over the absolute sum of the losing pnl.
C20_ProfitFactor ==
    result.returned =>
        LET won == SumOfPnl(result.trades, Len(result.trades), TRUE)
            lost == 0 - SumOfPnl(result.trades, Len(result.trades), FALSE)
        IN /\ result.losses = 0 => result.profitFactor = JsNum(0)
           /\ result.losses > 0 =>
                 result.profitFactor = JsNum((won * RatioScale) \div lost)

\* a report over gaining trades only, and its profitFactor is 0
C20_Witness ==
    /\ result.returned
    /\ result.wins >= 1
    /\ result.losses = 0
    /\ result.profitFactor = JsNum(0)
\* the sum of a field over the first n entries of a log
RECURSIVE SumPnl(_, _)
SumPnl(ts, n) == IF n = 0 THEN 0 ELSE SumPnl(ts, n - 1) + ts[n].pnl

RECURSIVE SumEntryCommission(_, _)
SumEntryCommission(os, n) ==
    IF n = 0 THEN 0 ELSE SumEntryCommission(os, n - 1) + os[n].commission

\* C21: once run() has returned a report, what the report holds (trade list,
\* equity curve, drawdown curve, statistics) never changes, whether it is
\* rendered or run() is called again on the engine.
C21_ReportImmutable ==
    [][(result.returned /\ result' = result) => Report' = Report]_vars

\* C22: every order executeOrder submits has rounded quantity x price at or
\* above the minimum notional; in particular its quantity is not 0.
C22_RoundedNotional ==
    order.status = "submitted" =>
        /\ order.quantity > 0
        /\ order.quantity * order.price >= MinOrderNotional * Precision(order.symbol)

\* C24: after calculateMACD, the signal line is available at an index exactly
\* when the MACD line is available there and at least signalPeriod available
\* MACD values exist up to it (so a signal that is numerically 0 is a number,
\* not the marker), and the histogram is available wherever the signal is.
C24_SignalAvailability ==
    macdCall.status = "returned" =>
        \A k \in 1..Len(macdCall.data) :
            /\ IsAvailable(macdCall.signal[k]) <=>
                   /\ IsAvailable(macdCall.macd[k])
                   /\ Len(ValidUpTo(macdCall.macd, k)) >= macdCall.signalPeriod
            /\ IsAvailable(macdCall.histogram[k]) <=> IsAvailable(macdCall.signal[k])

\* the 60-second window of the Binance limiter has elapsed
WindowElapsed == now - binance.windowStart > WindowMs

\* the weight counted in the window a call made now falls into
UsedInWindow == IF WindowElapsed THEN 0 ELSE binance.weightUsed

\* C25 (as stated): checkWeight keeps weightUsed at or below 1200; a call
\* that would exceed the limit returns false and leaves weightUsed unchanged;
\* the counter restarts from 0 only once the window has elapsed.
C25_RejectedLeavesWeightUsed ==
    [][CallCheckWeight =>
          /\ binance'.weightUsed <= BinanceMaxWeight
          /\ answer'.granted <=> UsedInWindow + answer'.weight <= BinanceMaxWeight
          /\ ~answer'.granted => binance'.weightUsed = binance.weightUsed
          /\ binance'.windowStart # binance.windowStart => WindowElapsed]_vars

\* C25 (amended): checkWeight keeps weightUsed at or below 1200; a call that
\* would exceed the limit returns false and adds nothing: weightUsed stays as
\* it was, or is 0 if the window had elapsed when the call was made; a granted
\* call adds its weight; the window restarts only once it has elapsed.
C25_RejectedAddsNothing ==
    [][CallCheckWeight =>
          /\ binance'.weightUsed <= BinanceMaxWeight
          /\ answer'.granted <=> UsedInWindow + answer'.weight <= BinanceMaxWeight
          /\ ~answer'.granted => binance'.weightUsed = UsedInWindow
          /\ answer'.granted => binance'.weightUsed = UsedInWindow + answer'.weight
          /\ binance'.windowStart # binance.windowStart => WindowElapsed
          /\ binance'.weightUsed < binance.weightUsed => WindowElapsed]_vars

\* a request is refused within the window, the limit being used up
C25_Witness ==
    /\ answer.op = "checkWeight"
    /\ ~answer.granted
    /\ answer.weight <= BinanceMaxWeight
    /\ binance.weightUsed = BinanceMaxWeight
    /\ ~WindowElapsed

\* C26: immediately after resetAll the Binance limiter reports its full
\* remaining weight and grants a checkWeight request, and every AI limiter
\* grants a checkLimit request for any key.
C26_ResetAllRestores ==
    [][ResetAll =>
          /\ GetRemainingWeight(binance') = BinanceMaxWeight
          /\ \A weight \in Weights :
                 weight <= BinanceMaxWeight => CheckWeight(binance', weight, now').granted
          /\ \A provider \in Providers, key \in Keys :
                 CheckLimit(ai'[provider].records, MaxRequests(provider), key,
                            now').granted]_vars

\* C23: the indicators passed to the oracle on bar i are computed over a
\* window whose last bar is bar i, the bar whose close is the snapshot price.
C23_WindowEndsAtCurrentBar ==
    pc = "await" =>
        /\ aiInput.price = At(klines, i).close
        /\ Len(aiInput.indicators) > 0
        /\ aiInput.indicators[Len(aiInput.indicators)] = At(klines, i)

\* C27: a function wrapped by withErrorHandling is invoked at most
\* maxRetries + 1 times per call; it is invoked again only after a failure
\* classified as retryable, after a wait of retryDelay x 2^attempt; a
\* non-retryable failure is rethrown after its attempt, with no further
\* invocation; every failed attempt is logged exactly once.
C27_RetryDiscipline ==
    call.pc # "idle" =>
        LET n == Len(call.outcomes)
            failed(k) == call.outcomes[k] # Resolved
            failures == IF call.pc = "returned" THEN n - 1 ELSE n
        IN /\ n <= call.maxRetries + 1
           /\ \A k \in 1..(n - 1) :
                  failed(k) /\ ClassifyError(call.outcomes[k]).retryable
           /\ Len(call.waits) = (IF call.pc \in {"returned", "thrown"}
                                 THEN n - 1 ELSE n)
           /\ \A k \in 1..Len(call.waits) :
                  call.waits[k] = call.retryDelay * 2 ^ (k - 1)
           /\ call.pc = "returned" => ~failed(n)
           /\ call.pc = "thrown" =>
                  /\ failed(n)
                  /\ call.thrown = ClassifyError(call.outcomes[n])
                  /\ ~call.thrown.retryable \/ n = call.maxRetries + 1
           /\ \A k \in 1..n :
                  (failed(k) /\ ~ClassifyError(call.outcomes[k]).retryable)
                      => (k = n /\ call.pc = "thrown")
           /\ errors = [k \in 1..failures |-> ClassifyError(call.outcomes[k])]

\* the default options: three retryable failures, waited for 1, 2 and 4
\* seconds, and a fourth that is rethrown
C27_Witness ==
    /\ call.pc = "thrown"
    /\ call.maxRetries = 3
    /\ Len(call.outcomes) = 4
    /\ call.waits = <<1000, 2000, 4000>>
    /\ call.thrown.retryable
    /\ Len(errors) = 4

\* C28: an open position's levels bracket its entry price by its side, and
\* the entry price is the close of the bar it was opened on, raised by the
\* slippage for a LONG and lowered by it for a SHORT.
C28_LevelsBracketEntry ==
    currentPosition # NoPosition =>
        LET pos == currentPosition
            close == At(klines, pos.entryTime).close
        IN /\ pos.side = "LONG" =>
                 /\ pos.stopLoss < pos.entryPrice /\ pos.entryPrice < pos.takeProfit
                 /\ pos.entryPrice = (close * (RateScale + SlippageRate)) \div RateScale
           /\ pos.side = "SHORT" =>
                 /\ pos.takeProfit < pos.entryPrice /\ pos.entryPrice < pos.stopLoss
                 /\ pos.entryPrice = (close * (RateScale - SlippageRate)) \div RateScale

\* a SHORT is open whose levels came from the clamp: asked for with a
\* position size of -5 and a leverage of 50
C28_Witness ==
    /\ currentPosition # NoPosition
    /\ currentPosition.side = "SHORT"
    /\ currentPosition.leverage = MaxLeverage
    /\ currentPosition.entryPrice < At(klines, currentPosition.entryTime).close

\* C29: at the end of a run finalCapital = initialCapital + the pnl of all
\* recorded trades - the entry commissions of all opened positions; a trade's
\* pnl and commission field hold the exit commission only; and totalReturn =
\* finalCapital - initialCapital.
C29_CapitalIdentity ==
    result.returned =>
        /\ result.finalCapital =
               result.initialCapital + SumPnl(result.trades, Len(result.trades))
                   - SumEntryCommission(opens, Len(opens))
        /\ Len(opens) = Len(result.trades)
        /\ \A k \in 1..Len(result.trades) :
               LET t == result.trades[k]
               IN /\ t.commission =
                        (((t.quantity * t.exitPrice) \div QtyScale) * CommissionRate)
                            \div RateScale
                  /\ t.pnl + t.commission = Gross(t)
        /\ result.totalReturn = result.finalCapital - result.initialCapital

\* a report over two trades, each with an entry commission paid
C29_Witness ==
    /\ result.returned
    /\ Len(result.trades) = 2
    /\ result.finalCapital # result.initialCapital + SumPnl(result.trades, 2)

\* C30: a position opened on bar i is not evaluated for stop-loss or
\* take-profit against bar i: a trade closed by either exits on a later bar
\* than it entered, and within a bar the exit check comes first, then the
\* oracle (only if flat) and the open, then the equity point.
C30_ExitFromNextBar ==
    [][/\ Closes =>
            LET t == LastTrade(trades')
            IN t.reason \in {"STOP_LOSS", "TAKE_PROFIT"} =>
                   (pc = "check" /\ t.entryTime < t.exitTime /\ t.exitTime = i)
       /\ (pc = "check" /\ i < Len(klines)) => pc' \in {"open", "equity"}
       /\ pc = "open" => (currentPosition = NoPosition /\ pc' = "await")
       /\ pc = "decided" => (pc' = "equity" /\ trades' = trades)
       /\ pc = "equity" =>
            (pc' = "check" /\ i' = i + 1 /\ trades' = trades
             /\ currentPosition' = currentPosition)]_vars

\* a position opened on a bar whose range reaches its stop-loss level is still
\* open at that bar's equity point
C30_Witness ==
    /\ pc = "equity"
    /\ currentPosition # NoPosition
    /\ currentPosition.entryTime = i
    /\ StopLossHit(currentPosition, At(klines, i))

====
